---- MODULE Spec2Model ----
(***************************************************************************)
(* tp_utils debug facility: the DebugMode gate registry (DebugUtils.cpp)   *)
(* and the warning/debug statement sinks, as a state machine of threads    *)
(* that call the library's operations.                                     *)
(*                                                                         *)
(* An operation that takes debugMutex is split where its effect can be     *)
(* seen from outside the lock (a gate's atomic flag is read lock-free by   *)
(* operator() and setTable): it acquires the lock with its first step and  *)
(* releases it with its last one.                                          *)
(***************************************************************************)
EXTENDS Integers, Sequences, FiniteSets, TLC

\* ---- bounds of the model ----
NumThreads == 2
NumGates == 2
MaxOps == 4

Threads == 1..NumThreads

\* A signal handler runs on the thread it interrupts, as a frame on top of what
\* the thread was doing: the frame of thread th has its own position and locals,
\* the thread itself stands still until the handler returns.
FrameOf(th) == NumThreads + th
SignalFrames == {FrameOf(th) : th \in Threads}
Frames == Threads \cup SignalFrames
Gates == 1..NumGates

\* ---- values ----
ClassPathValues == {"A", "B"}
DebugTypes == {"Console", "Table"}
MessageTypes == {"Warning", "Debug"}
Payloads == {"x", "y"}
TableCallbacks == {"cb1"}
MessageHandlers == {"h1"}
Fragments == {"a", "b"}

NoOwner == 0
NotInterrupted == "none"
NoCallback == "none"
NoPath == "none"
Dangling == "dangling"
NewLine == "\n"

Pairs == ClassPathValues \X DebugTypes

\* the factory objects: the two default factories the manager starts with, and
\* those callers create (each setWarning/setDebug call hands over a new one)
DefaultWarningFactory == 1
DefaultDebugFactory == 2
DefaultFactories == {DefaultWarningFactory, DefaultDebugFactory}
FactoryIds == 1..(MaxOps + Cardinality(DefaultFactories))

NoFactory == [for |-> "none", alive |-> FALSE]

\* the sink objects: every produce call makes one
SinkIds == 1..MaxOps
NoSink == 0

VARIABLES
  debugMutex,               \* owner of debugMutex, or NoOwner
  tableCallback,            \* the installed table callback, or NoCallback
  enabledDebugModeObjects,  \* map: the (classPath, debugType) pairs ever enabled/disabled -> bool
  debugModeObjects,         \* vector of the registered gates
  strVal,                   \* per gate: content of the caller's string d->classPath refers to
  ctorPath,                 \* per gate: the class path value passed to its constructor
  debugType,                \* per gate: d->debugType
  enabled,                  \* per gate: d->enabled
  lastEnable,               \* history: pairs enable() was called for -> value of the latest call
  ctorRank,                 \* history, per gate: its place among the live gates by time of
                            \* construction (0: not live)
  pc,                       \* per thread: position
  local,                    \* per thread: arguments and locals of the running operation
  ops,                      \* number of calls and caller steps so far (bounded by MaxOps)
  mgrMutex,                 \* owner of Manager::Private::mutex, or NoOwner
  warningFactory,           \* Manager::Private::warningFactory
  debugFactory,             \* Manager::Private::debugFactory
  factories,                \* per factory object: whether it is alive, and (history) the
                            \* classification it was installed for
  sinks,                    \* per sink object: unborn, alive, or how it was destroyed
  debugCallback,            \* the installed message handler, or NoCallback
  stmt,                     \* per thread: the statement it runs (the macro used, its sink)
  buffer,                   \* per thread: the text held by its sink's m_buffer
  appended,                 \* history, per thread: the fragments its statement appended
  console,                  \* history, per thread: the texts its statement wrote to std::cout
  handled,                  \* history, per thread: the handler calls its statement made
  output,                   \* history: what the flushes of the statements under way
                            \* delivered, in order: a flush begins to deliver its text, a
                            \* flush has ended
  sigHandler,               \* the handler installed for SIGABRT, or NoCallback
  interrupted,              \* per thread: where it was when the signal handler running on
                            \* it began, or NotInterrupted
  file,                     \* the file the file helpers are called on: whether it exists, its text
  io                        \* the latest call of a file helper: its arguments, what the
                            \* underlying calls did, and what it returned

gateVars == <<tableCallback, enabledDebugModeObjects, debugModeObjects, strVal,
              ctorPath, debugType, enabled, lastEnable, ctorRank>>

logVars == <<mgrMutex, warningFactory, debugFactory, factories, sinks, debugCallback,
             stmt, buffer, appended, console, handled>>

fileVars == <<file, io>>

outVars == <<output>>

sigVars == <<sigHandler, interrupted>>

vars == <<debugMutex, gateVars, pc, local, ops, logVars, fileVars, sigVars, outVars>>

NoLocal ==
  [gate |-> 0, path |-> NoPath, type |-> "Console", val |-> FALSE, i |-> 0,
   payload |-> "x", cb |-> NoCallback, invoked |-> 0, result |-> <<>>]

\* dbg is DebugHelper::m_dbg, the sink the statement's helper holds.
\* handler, steady and flushes are history: the message handler installed when the
\* statement was issued, whether no installMessageHandler() ran since, and the
\* number of flushes the statement has asked for
NoStmt ==
  [macro |-> "none", sink |-> "none", final |-> FALSE, handler |-> NoCallback,
   steady |-> TRUE, flushes |-> 0, dbg |-> NoSink]

\* ---- values of the file helpers (FileUtils.cpp) ----
\* A text is a sequence of tokens. White space separates the tokens of a JSON text.
WhiteSpace == {"\n", " "}
Zero == "\\0"

\* JSON values: null (what nlohmann::json() makes), an empty object, an array of
\* one number, and a string that is not valid UTF-8
JsonNull == [kind |-> "null", items |-> <<>>]
JsonObject == [kind |-> "object", items |-> <<>>]
JsonArray == [kind |-> "array", items |-> <<"1">>]
JsonBadString == [kind |-> "string", items |-> <<"\\xff">>]
JsonValues == {JsonNull, JsonObject, JsonArray, JsonBadString}

\* the indent argument of dump(): negative is the compact form
Indents == {-1, 0, 2}
PrettyIndent == 2

\* texts callers write and files hold
FileTexts == {<<>>, <<"x">>, <<"null">>, <<"{", "}">>, <<"[", "1", "]">>,
              <<"[", "\n", " ", " ", "1", "\n", "]">>}

\* what the underlying stream calls of one helper call do: all succeed, the open
\* fails, a read or write after the open fails, or an exception is thrown
\* (std::bad_alloc)
ReadEnvs == {"ok", "openFails", "readFails", "throws"}
WriteEnvs == {"ok", "openFails", "writeFails", "throws"}

NoFile == [exists |-> FALSE, text |-> <<>>]
NoIo ==
  [fn |-> "none", env |-> "ok", failed |-> FALSE, retText |-> <<>>, retJson |-> JsonNull,
   retBool |-> FALSE]

\* ---- helpers ----
SeqToSet(s) == {s[k] : k \in 1..Len(s)}

Live(g) == g \in SeqToSet(debugModeObjects)

\* tpRemoveOne(container, value): erases the first element equal to value
RECURSIVE tpRemoveOne(_, _)
tpRemoveOne(s, x) ==
  IF s = <<>> THEN <<>>
  ELSE IF Head(s) = x THEN Tail(s)
  ELSE <<Head(s)>> \o tpRemoveOne(Tail(s), x)

\* What a read through the reference d->classPath can yield: the content of the
\* caller's string while it is alive, anything once its lifetime has ended.
ReadClassPath(g) ==
  IF strVal[g] = Dangling THEN ClassPathValues \cup {"garbage"} ELSE {strVal[g]}

\* enabledDebugModeObjects.find(classPath) / i->second.find(int(debugType))
Found(p, t) == <<p, t>> \in DOMAIN enabledDebugModeObjects

\* m[key] = v of a map: inserts the key when it is absent
MapStore(m, key, v) == [k \in DOMAIN m \cup {key} |-> IF k = key THEN v ELSE m[k]]

EmptyMap == [k \in {} |-> FALSE]

\* g's constructor is still running (the caller can do nothing with g or with the
\* string it passed until the constructor has returned)
InCtor(g) == \E th \in Threads : pc[th] \in {"ctor_seed", "ctor_ret"} /\ local[th].gate = g

\* No thread is using gate g (a caller destroys a gate only when no call on it runs)
Unused(g) == \A th \in Threads : pc[th] = "idle" \/ local[th].gate # g

\* Thread th starts a call of the library. Idle threads hold no state of their
\* own, so a call is started by the lowest idle one.
Call(th) ==
  /\ pc[th] = "idle"
  /\ \A o \in Threads : o < th => pc[o] # "idle"
  /\ ops < MaxOps
  /\ ops' = ops + 1

\* a step of the calling code on one of its own objects
CallerStep == ops < MaxOps /\ ops' = ops + 1

\* the start state of everything but the two callbacks
InitRest ==
  /\ debugMutex = NoOwner
  /\ enabledDebugModeObjects = EmptyMap
  /\ debugModeObjects = <<>>
  /\ strVal = [g \in Gates |-> NoPath]
  /\ ctorPath = [g \in Gates |-> NoPath]
  /\ debugType = [g \in Gates |-> "Console"]
  /\ enabled = [g \in Gates |-> FALSE]
  /\ lastEnable = EmptyMap
  /\ ctorRank = [g \in Gates |-> 0]
  /\ pc = [th \in Frames |-> "idle"]
  /\ local = [th \in Frames |-> NoLocal]
  /\ ops = 0
  /\ mgrMutex = NoOwner
  /\ warningFactory = DefaultWarningFactory
  /\ debugFactory = DefaultDebugFactory
  /\ factories = [f \in FactoryIds |->
                    IF f = DefaultWarningFactory THEN [for |-> "Warning", alive |-> TRUE]
                    ELSE IF f = DefaultDebugFactory THEN [for |-> "Debug", alive |-> TRUE]
                    ELSE NoFactory]
  /\ sinks = [k \in SinkIds |-> "unborn"]
  /\ stmt = [th \in Frames |-> NoStmt]
  /\ buffer = [th \in Frames |-> <<>>]
  /\ appended = [th \in Frames |-> <<>>]
  /\ console = [th \in Frames |-> <<>>]
  /\ handled = [th \in Frames |-> <<>>]
  /\ output = <<>>
  /\ io = NoIo
  /\ interrupted = [th \in Threads |-> NotInterrupted]

\* the state after static initialisation: empty registry, no callbacks
Init ==
  /\ tableCallback = NoCallback
  /\ debugCallback = NoCallback
  /\ file = NoFile
  /\ sigHandler = NoCallback
  /\ InitRest

\* ---- DebugMode::DebugMode ----
\* d(new Private(classPath, debugType)); lock; debugModeObjects.push_back(this)
CtorRegister(th, g, p, t) ==
  /\ Call(th)
  /\ debugMutex = NoOwner
  /\ ~Live(g)
  /\ Unused(g)
  /\ \A o \in Gates : o < g => Live(o) \/ ~Unused(o)
  /\ debugMutex' = th
  /\ strVal' = [strVal EXCEPT ![g] = p]
  /\ ctorPath' = [ctorPath EXCEPT ![g] = p]
  /\ debugType' = [debugType EXCEPT ![g] = t]
  /\ enabled' = [enabled EXCEPT ![g] = FALSE]
  /\ debugModeObjects' = Append(debugModeObjects, g)
  /\ ctorRank' = [ctorRank EXCEPT ![g] = Cardinality({o \in Gates : ctorRank[o] > 0}) + 1]
  /\ pc' = [pc EXCEPT ![th] = "ctor_seed"]
  /\ local' = [local EXCEPT ![th] = [NoLocal EXCEPT !.gate = g, !.path = p, !.type = t]]
  /\ UNCHANGED <<tableCallback, enabledDebugModeObjects, lastEnable>>
  /\ UNCHANGED logVars
  /\ UNCHANGED fileVars
  /\ UNCHANGED sigVars
  /\ UNCHANGED outVars

\* (mutant) the stored flag is looked up by class path alone
SeedValue_AnyType(g, p, t) ==
  IF \E tt \in DebugTypes : Found(p, tt)
  THEN enabledDebugModeObjects[<<p, CHOOSE tt \in DebugTypes : Found(p, tt)>>]
  ELSE enabled[g]

\* the value the constructor gives d->enabled for the pair it was called with
SeedValue(g, p, t) ==
  IF Found(p, t) THEN enabledDebugModeObjects[<<p, t>>] ELSE enabled[g]

\* find(classPath), find(int(debugType)), d->enabled = ii->second
CtorSeed(th) ==
  /\ pc[th] = "ctor_seed"
  /\ LET g == local[th].gate
     IN enabled' = [enabled EXCEPT ![g] = SeedValue(g, local[th].path, local[th].type)]
  /\ pc' = [pc EXCEPT ![th] = "ctor_ret"]
  /\ UNCHANGED <<debugMutex, tableCallback, enabledDebugModeObjects, debugModeObjects,
                 strVal, ctorPath, debugType, lastEnable, ctorRank, local, ops>>
  /\ UNCHANGED logVars
  /\ UNCHANGED fileVars
  /\ UNCHANGED sigVars
  /\ UNCHANGED outVars

\* ---- leaving an operation: the lock guard's destructor and the return ----
Return(th) ==
  /\ pc[th] \in {"ctor_ret", "dtor_ret", "enable_ret", "classPaths_ret",
                 "setTable_ret", "install_ret", "query_ret"}
  /\ debugMutex' = IF debugMutex = th THEN NoOwner ELSE debugMutex
  /\ pc' = [pc EXCEPT ![th] = "idle"]
  /\ local' = [local EXCEPT ![th] = NoLocal]
  /\ UNCHANGED <<gateVars, ops>>
  /\ UNCHANGED logVars
  /\ UNCHANGED fileVars
  /\ UNCHANGED sigVars
  /\ UNCHANGED outVars

\* ---- DebugMode::~DebugMode ----
\* (mutant) debugModeObjects.pop_back()
Deregistered_PopBack(g) == SubSeq(debugModeObjects, 1, Len(debugModeObjects) - 1)

\* tpRemoveOne(debugModeObjects, this)
Deregistered(g) == tpRemoveOne(debugModeObjects, g)

Dtor(th, g) ==
  /\ Call(th)
  /\ debugMutex = NoOwner
  /\ Live(g)
  /\ Unused(g)
  /\ debugMutex' = th
  /\ debugModeObjects' = Deregistered(g)
  /\ ctorRank' = [o \in Gates |-> IF o = g THEN 0
                                  ELSE IF ctorRank[o] > ctorRank[g] THEN ctorRank[o] - 1
                                  ELSE ctorRank[o]]
  /\ strVal' = [strVal EXCEPT ![g] = NoPath]
  /\ ctorPath' = [ctorPath EXCEPT ![g] = NoPath]
  /\ debugType' = [debugType EXCEPT ![g] = "Console"]
  /\ enabled' = [enabled EXCEPT ![g] = FALSE]
  /\ pc' = [pc EXCEPT ![th] = "dtor_ret"]
  /\ local' = [local EXCEPT ![th] = [NoLocal EXCEPT !.gate = g]]
  /\ UNCHANGED <<tableCallback, enabledDebugModeObjects, lastEnable>>
  /\ UNCHANGED logVars
  /\ UNCHANGED fileVars
  /\ UNCHANGED sigVars
  /\ UNCHANGED outVars

\* ---- DebugMode::enable ----
\* lock; enabledDebugModeObjects[classPath][int(debugType)] = enabled
EnableStore(th, p, t, v) ==
  /\ Call(th)
  /\ debugMutex = NoOwner
  /\ debugMutex' = th
  /\ enabledDebugModeObjects' = MapStore(enabledDebugModeObjects, <<p, t>>, v)
  /\ lastEnable' = [k \in DOMAIN lastEnable \cup {<<p, t>>} |->
                      IF k = <<p, t>> THEN v ELSE lastEnable[k]]
  /\ pc' = [pc EXCEPT ![th] = "enable_loop"]
  /\ local' = [local EXCEPT ![th] = [NoLocal EXCEPT !.path = p, !.type = t, !.val = v, !.i = 1]]
  /\ UNCHANGED <<tableCallback, debugModeObjects, strVal, ctorPath, debugType, enabled,
                 ctorRank>>
  /\ UNCHANGED logVars
  /\ UNCHANGED fileVars
  /\ UNCHANGED sigVars
  /\ UNCHANGED outVars

\* dm->d->classPath == classPath && dm->d->debugType == debugType, rp the
\* string read through dm->d->classPath
EnableMatches(g, rp, p, t) == rp = p /\ debugType[g] = t

\* one iteration of for(auto dm : debugModeObjects)
EnableLoop(th) ==
  /\ pc[th] = "enable_loop"
  /\ local[th].i <= Len(debugModeObjects)
  /\ LET g == debugModeObjects[local[th].i]
     IN \E rp \in ReadClassPath(g) :
          enabled' = IF EnableMatches(g, rp, local[th].path, local[th].type)
                     THEN [enabled EXCEPT ![g] = local[th].val]
                     ELSE enabled
  /\ local' = [local EXCEPT ![th].i = @ + 1]
  /\ UNCHANGED <<debugMutex, tableCallback, enabledDebugModeObjects, debugModeObjects,
                 strVal, ctorPath, debugType, lastEnable, ctorRank, pc, ops>>
  /\ UNCHANGED logVars
  /\ UNCHANGED fileVars
  /\ UNCHANGED sigVars
  /\ UNCHANGED outVars

EnableDone(th) ==
  /\ pc[th] = "enable_loop"
  /\ local[th].i > Len(debugModeObjects)
  /\ pc' = [pc EXCEPT ![th] = "enable_ret"]
  /\ UNCHANGED <<debugMutex, gateVars, local, ops>>
  /\ UNCHANGED logVars
  /\ UNCHANGED fileVars
  /\ UNCHANGED sigVars
  /\ UNCHANGED outVars

\* ---- DebugMode::classPaths ----
\* the vectors the loop over gates gs can build: one class path, read through
\* d->classPath, for each gate of type t
RECURSIVE ClassPathsOf(_, _)
ClassPathsOf(gs, t) ==
  IF gs = <<>> THEN {<<>>}
  ELSE IF debugType[Head(gs)] = t
       THEN {<<rp>> \o rest : rp \in ReadClassPath(Head(gs)), rest \in ClassPathsOf(Tail(gs), t)}
       ELSE ClassPathsOf(Tail(gs), t)

ClassPaths(th, t) ==
  /\ Call(th)
  /\ debugMutex = NoOwner
  /\ debugMutex' = th
  /\ \E r \in ClassPathsOf(debugModeObjects, t) :
       local' = [local EXCEPT ![th] = [NoLocal EXCEPT !.type = t, !.result = r]]
  /\ pc' = [pc EXCEPT ![th] = "classPaths_ret"]
  /\ UNCHANGED gateVars
  /\ UNCHANGED logVars
  /\ UNCHANGED fileVars
  /\ UNCHANGED sigVars
  /\ UNCHANGED outVars

\* ---- DebugMode::installTableCallback ----
InstallTableCallback(th, cb) ==
  /\ Call(th)
  /\ debugMutex = NoOwner
  /\ debugMutex' = th
  /\ tableCallback' = cb
  /\ pc' = [pc EXCEPT ![th] = "install_ret"]
  /\ local' = [local EXCEPT ![th] = [NoLocal EXCEPT !.cb = cb]]
  /\ UNCHANGED <<enabledDebugModeObjects, debugModeObjects, strVal, ctorPath, debugType,
                 enabled, lastEnable, ctorRank>>
  /\ UNCHANGED logVars
  /\ UNCHANGED fileVars
  /\ UNCHANGED sigVars
  /\ UNCHANGED outVars

\* ---- DebugMode::operator() ----
\* return d->enabled: a lock-free read of the atomic flag
GateReads(g) == enabled[g]

Query(th, g) ==
  /\ Call(th)
  /\ Live(g)
  /\ ~InCtor(g)
  /\ pc' = [pc EXCEPT ![th] = "query_ret"]
  /\ local' = [local EXCEPT ![th] = [NoLocal EXCEPT !.gate = g, !.val = GateReads(g)]]
  /\ UNCHANGED <<debugMutex, gateVars>>
  /\ UNCHANGED logVars
  /\ UNCHANGED fileVars
  /\ UNCHANGED sigVars
  /\ UNCHANGED outVars

\* ---- DebugMode::setTable ----
\* (mutant) the check of d->enabled is missing
TableGuard_Always(seen) == TRUE

\* if(d->enabled), seen the value read
TableGuard(seen) == seen

\* the lock-free read of d->enabled
SetTableRead(th, g, payload) ==
  /\ Call(th)
  /\ Live(g)
  /\ ~InCtor(g)
  /\ IF TableGuard(enabled[g])
     THEN /\ pc' = [pc EXCEPT ![th] = "setTable_lock"]
          /\ local' = [local EXCEPT ![th] =
                         [NoLocal EXCEPT !.gate = g, !.payload = payload, !.val = enabled[g]]]
     ELSE /\ pc' = [pc EXCEPT ![th] = "setTable_ret"]
          /\ local' = [local EXCEPT ![th] = [NoLocal EXCEPT !.gate = g, !.payload = payload]]
  /\ UNCHANGED <<debugMutex, gateVars>>
  /\ UNCHANGED logVars
  /\ UNCHANGED fileVars
  /\ UNCHANGED sigVars
  /\ UNCHANGED outVars

\* the arguments of tableCallback(d->classPath, d->debugType, table)
TableArgs(g, rp, payload) == [path |-> rp, type |-> debugType[g], payload |-> payload]

\* (mutant) setTable() calls the table callback without locking debugMutex
SetTableLocked_Unlocked(th) ==
  /\ pc[th] = "setTable_lock"
  /\ IF tableCallback # NoCallback
     THEN /\ pc' = [pc EXCEPT ![th] = "setTable_cb"]
          /\ \E rp \in ReadClassPath(local[th].gate) :
               LET a == TableArgs(local[th].gate, rp, local[th].payload)
               IN local' = [local EXCEPT ![th].cb = tableCallback, ![th].invoked = @ + 1,
                                         ![th].path = a.path, ![th].type = a.type,
                                         ![th].result = <<a.payload>>]
     ELSE /\ pc' = [pc EXCEPT ![th] = "setTable_ret"]
          /\ local' = local
  /\ UNCHANGED <<debugMutex, gateVars, ops, logVars, fileVars, sigVars>>
  /\ UNCHANGED outVars

\* lock; if(tableCallback) tableCallback(...): the callback runs under the lock
SetTableLocked(th) ==
  /\ pc[th] = "setTable_lock"
  /\ debugMutex = NoOwner
  /\ debugMutex' = th
  /\ IF tableCallback # NoCallback
     THEN /\ pc' = [pc EXCEPT ![th] = "setTable_cb"]
          /\ \E rp \in ReadClassPath(local[th].gate) :
               LET a == TableArgs(local[th].gate, rp, local[th].payload)
               IN local' = [local EXCEPT ![th].cb = tableCallback, ![th].invoked = @ + 1,
                                         ![th].path = a.path, ![th].type = a.type,
                                         ![th].result = <<a.payload>>]
     ELSE /\ pc' = [pc EXCEPT ![th] = "setTable_ret"]
          /\ local' = local
  /\ UNCHANGED <<gateVars, ops>>
  /\ UNCHANGED logVars
  /\ UNCHANGED fileVars
  /\ UNCHANGED sigVars
  /\ UNCHANGED outVars

\* the table callback returns
TableCallbackReturns(th) ==
  /\ pc[th] = "setTable_cb"
  /\ pc' = [pc EXCEPT ![th] = "setTable_ret"]
  /\ UNCHANGED <<debugMutex, gateVars, local, ops>>
  /\ UNCHANGED logVars
  /\ UNCHANGED fileVars
  /\ UNCHANGED sigVars
  /\ UNCHANGED outVars

\* ---- the caller's string object a gate's d->classPath refers to ----
\* the caller assigns another value to the string it passed to g's constructor
CallerAssigns(g, p) ==
  /\ CallerStep
  /\ Live(g)
  /\ ~InCtor(g)
  /\ strVal[g] \in ClassPathValues
  /\ strVal[g] # p
  /\ strVal' = [strVal EXCEPT ![g] = p]
  /\ UNCHANGED <<debugMutex, tableCallback, enabledDebugModeObjects, debugModeObjects,
                 ctorPath, debugType, enabled, lastEnable, ctorRank, pc, local>>
  /\ UNCHANGED logVars
  /\ UNCHANGED fileVars
  /\ UNCHANGED sigVars
  /\ UNCHANGED outVars

\* the string passed to g's constructor is destroyed (a temporary, a local)
CallerEndsLifetime(g) ==
  /\ CallerStep
  /\ Live(g)
  /\ ~InCtor(g)
  /\ strVal[g] \in ClassPathValues
  /\ strVal' = [strVal EXCEPT ![g] = Dangling]
  /\ UNCHANGED <<debugMutex, tableCallback, enabledDebugModeObjects, debugModeObjects,
                 ctorPath, debugType, enabled, lastEnable, ctorRank, pc, local>>
  /\ UNCHANGED logVars
  /\ UNCHANGED fileVars
  /\ UNCHANGED sigVars
  /\ UNCHANGED outVars

\* ---- DBG::Manager::produceWarning / produceDebug (tpWarning / tpDebug) ----
\* std::lock_guard<std::mutex> lg(d->mutex)
ProduceAcquire(th, macro) ==
  /\ mgrMutex = NoOwner
  /\ mgrMutex' = th
  /\ pc' = [pc EXCEPT ![th] = "produce"]
  /\ stmt' = [stmt EXCEPT ![th] = [NoStmt EXCEPT !.macro = macro, !.handler = debugCallback]]
  /\ UNCHANGED <<debugMutex, gateVars, local, warningFactory, debugFactory, factories, sinks,
                 debugCallback, buffer, appended, console, handled>>
  /\ UNCHANGED fileVars
  /\ UNCHANGED outVars

\* a statement of the application begins
ProduceLock(th, macro) ==
  /\ Call(th)
  /\ ProduceAcquire(th, macro)
  /\ UNCHANGED sigVars
  /\ UNCHANGED outVars

\* the factory a produce call uses
FactoryFor(macro) == IF macro = "Warning" THEN warningFactory ELSE debugFactory

\* FactoryTemplate<Default>::produce: new Default(); a factory of the caller
\* produces a sink of the caller
Produced(factory) == IF factory \in DefaultFactories THEN "Default" ELSE "Custom"

\* new T(): the sink object made by a produce call, the lowest unused one
NewSink == CHOOSE k \in SinkIds :
  /\ sinks[k] = "unborn"
  /\ \A o \in SinkIds : o < k => sinks[o] # "unborn"

\* return d->warningFactory->produce(); then DebugHelper(dbg) holds the sink
ProduceReturn(th) ==
  /\ pc[th] = "produce"
  /\ mgrMutex' = NoOwner
  /\ sinks' = [sinks EXCEPT ![NewSink] = "alive"]
  /\ stmt' = [stmt EXCEPT ![th].sink = Produced(FactoryFor(stmt[th].macro)),
                          ![th].dbg = NewSink]
  /\ buffer' = [buffer EXCEPT ![th] = <<>>]
  /\ pc' = [pc EXCEPT ![th] = "stmt"]
  /\ UNCHANGED <<debugMutex, gateVars, local, ops, warningFactory, debugFactory, factories,
                 debugCallback, appended, console, handled>>
  /\ UNCHANGED fileVars
  /\ UNCHANGED sigVars
  /\ UNCHANGED outVars

\* ---- DBG::Manager::setWarning / setDebug ----
\* the factory object a caller makes for a set call: new F(), the lowest unused one
NewFactory == CHOOSE f \in FactoryIds :
  /\ factories[f] = NoFactory
  /\ \A o \in FactoryIds : o < f => factories[o] # NoFactory

\* (mutant) the replaced factory is not deleted
Deleted_Leaked(fs, f) == fs

\* delete d->warningFactory / delete d->debugFactory
Deleted(fs, f) == [fs EXCEPT ![f].alive = FALSE]

\* lock; delete the installed factory; install the caller's
SetFactory(th, macro) ==
  /\ Call(th)
  /\ mgrMutex = NoOwner
  /\ mgrMutex' = th
  /\ \E f \in FactoryIds : factories[f] = NoFactory
  /\ LET f == NewFactory
         made == [factories EXCEPT ![f] = [for |-> macro, alive |-> TRUE]]
     IN IF macro = "Warning"
        THEN /\ factories' = Deleted(made, warningFactory)
             /\ warningFactory' = f
             /\ UNCHANGED debugFactory
        ELSE /\ factories' = Deleted(made, debugFactory)
             /\ debugFactory' = f
             /\ UNCHANGED warningFactory
  /\ pc' = [pc EXCEPT ![th] = "set_ret"]
  /\ UNCHANGED <<debugMutex, gateVars, local, sinks, debugCallback, stmt, buffer, appended,
                 console, handled>>
  /\ UNCHANGED fileVars
  /\ UNCHANGED sigVars
  /\ UNCHANGED outVars

\* (mutant) setWarning / setDebug returns with the manager's mutex still locked
SetReturn_KeepsLock(th) ==
  /\ pc[th] = "set_ret"
  /\ pc' = [pc EXCEPT ![th] = "idle"]
  /\ UNCHANGED <<debugMutex, gateVars, local, ops, logVars, fileVars, sigVars>>
  /\ UNCHANGED outVars

\* the lock guard's destructor and the return of setWarning / setDebug
SetReturn(th) ==
  /\ pc[th] = "set_ret"
  /\ mgrMutex' = NoOwner
  /\ pc' = [pc EXCEPT ![th] = "idle"]
  /\ UNCHANGED <<debugMutex, gateVars, local, ops, warningFactory, debugFactory, factories,
                 sinks,
                 debugCallback, stmt, buffer, appended, console, handled>>
  /\ UNCHANGED fileVars
  /\ UNCHANGED sigVars
  /\ UNCHANGED outVars

\* ---- the statement's append operations: helper() << fragment ----
StreamAppend(th, f) ==
  /\ pc[th] = "stmt"
  /\ stmt[th].sink = "Default"
  /\ CallerStep
  /\ buffer' = [buffer EXCEPT ![th] = Append(@, f)]
  /\ appended' = [appended EXCEPT ![th] = Append(@, f)]
  /\ UNCHANGED <<debugMutex, gateVars, pc, local, mgrMutex, warningFactory,
                 debugFactory, factories, sinks, debugCallback, stmt, console, handled>>
  /\ UNCHANGED fileVars
  /\ UNCHANGED sigVars
  /\ UNCHANGED outVars

\* helper() << std::flush: an explicit flush, which calls DebugBuffer::sync
StreamFlush(th) ==
  /\ pc[th] = "stmt"
  /\ stmt[th].sink = "Default"
  /\ CallerStep
  /\ pc' = [pc EXCEPT ![th] = "sync_lock"]
  /\ stmt' = [stmt EXCEPT ![th].flushes = @ + 1]
  /\ UNCHANGED <<debugMutex, gateVars, local, mgrMutex, warningFactory, debugFactory,
                 factories, sinks,
                 debugCallback, buffer, appended, console, handled>>
  /\ UNCHANGED fileVars
  /\ UNCHANGED sigVars
  /\ UNCHANGED outVars

\* ---- DebugHelper::~DebugHelper, DBG::Default::~Default ----
\* what the destructor puts into the stream before its flush: m_stream << std::endl
DtorText == <<NewLine>>

\* delete m_dbg: m_stream << std::endl appends the terminator and flushes
StatementEnds(th) ==
  /\ pc[th] = "stmt"
  /\ stmt[th].sink = "Default"
  /\ buffer' = [buffer EXCEPT ![th] = @ \o DtorText]
  /\ stmt' = [stmt EXCEPT ![th].final = TRUE, ![th].flushes = @ + 1]
  /\ pc' = [pc EXCEPT ![th] = "sync_lock"]
  /\ UNCHANGED <<debugMutex, gateVars, local, ops, mgrMutex, warningFactory, debugFactory,
                 factories, sinks,
                 debugCallback, appended, console, handled>>
  /\ UNCHANGED fileVars
  /\ UNCHANGED sigVars
  /\ UNCHANGED outVars

\* delete m_dbg for a sink of the caller's own kind: its destructor runs, which
\* is the caller's code and uses nothing of the library
CustomStatementEnds(th) ==
  /\ pc[th] = "stmt"
  /\ stmt[th].sink = "Custom"
  /\ stmt' = [stmt EXCEPT ![th].final = TRUE]
  /\ pc' = [pc EXCEPT ![th] = "stmt_done"]
  /\ UNCHANGED <<debugMutex, gateVars, local, ops, mgrMutex, warningFactory, debugFactory,
                 factories, sinks, debugCallback, buffer, appended, console, handled>>
  /\ UNCHANGED fileVars
  /\ UNCHANGED sigVars
  /\ UNCHANGED outVars

\* ---- DebugBuffer::sync ----
\* the classification sync hands to the handler for a statement made with macro
SyncMessageType(macro) == "Warning"

\* (mutant) the test of the handler always fails
HandlerInstalled_Never(cb) == FALSE

\* if(debugCallback): the std::function holds a target
HandlerInstalled(cb) == cb # NoCallback

\* (mutant) the flush delivers its text without locking debugMutex
SyncEmit_Unlocked(th) ==
  /\ pc[th] = "sync_lock"
  /\ UNCHANGED debugMutex
  /\ IF HandlerInstalled(debugCallback)
     THEN /\ handled' = [handled EXCEPT ![th] =
                           Append(@, [h |-> debugCallback,
                                      type |-> SyncMessageType(stmt[th].macro),
                                      text |-> buffer[th]])]
          /\ pc' = [pc EXCEPT ![th] = "sync_cb"]
          /\ UNCHANGED console
     ELSE /\ console' = [console EXCEPT ![th] = Append(@, buffer[th])]
          /\ pc' = [pc EXCEPT ![th] = "sync_clear"]
          /\ UNCHANGED handled
  /\ UNCHANGED <<gateVars, local, ops, mgrMutex, warningFactory, debugFactory, factories, sinks,
                 debugCallback, stmt, buffer, appended>>
  /\ UNCHANGED fileVars
  /\ UNCHANGED sigVars
  /\ output' = Append(output, [by |-> th, ev |-> "begin", text |-> buffer[th]])

\* lock; if(debugCallback) debugCallback(MessageType::Warning, str());
\* else { std::cout << str(); std::cout.flush(); }
\* the delivery of the text begins here and is over at str("")
SyncEmit(th) ==
  /\ pc[th] = "sync_lock"
  /\ debugMutex = NoOwner
  /\ debugMutex' = th
  /\ IF HandlerInstalled(debugCallback)
     THEN /\ handled' = [handled EXCEPT ![th] =
                           Append(@, [h |-> debugCallback,
                                      type |-> SyncMessageType(stmt[th].macro),
                                      text |-> buffer[th]])]
          /\ pc' = [pc EXCEPT ![th] = "sync_cb"]
          /\ UNCHANGED console
     ELSE /\ console' = [console EXCEPT ![th] = Append(@, buffer[th])]
          /\ pc' = [pc EXCEPT ![th] = "sync_clear"]
          /\ UNCHANGED handled
  /\ UNCHANGED <<gateVars, local, ops, mgrMutex, warningFactory, debugFactory, factories, sinks,
                 debugCallback, stmt, buffer, appended>>
  /\ UNCHANGED fileVars
  /\ UNCHANGED sigVars
  /\ output' = Append(output, [by |-> th, ev |-> "begin", text |-> buffer[th]])

\* the message handler returns
HandlerReturns(th) ==
  /\ pc[th] = "sync_cb"
  /\ pc' = [pc EXCEPT ![th] = "sync_clear"]
  /\ UNCHANGED <<debugMutex, gateVars, local, ops, logVars>>
  /\ UNCHANGED fileVars
  /\ UNCHANGED sigVars
  /\ UNCHANGED outVars

\* (mutant) the buffer is not reset after a flush
Cleared_Kept(text) == text

\* what str("") leaves in the buffer
Cleared(text) == <<>>

\* str(""); return 0: the lock is released; after the destructor's flush the sink
\* is gone
SyncClear(th) ==
  /\ pc[th] = "sync_clear"
  /\ debugMutex' = NoOwner
  /\ buffer' = [buffer EXCEPT ![th] = Cleared(@)]
  /\ pc' = [pc EXCEPT ![th] = IF stmt[th].final THEN "stmt_done" ELSE "stmt"]
  /\ UNCHANGED <<gateVars, local, ops, mgrMutex, warningFactory, debugFactory, factories, sinks,
                 debugCallback, stmt, appended, console, handled>>
  /\ UNCHANGED fileVars
  /\ UNCHANGED sigVars
  /\ output' = Append(output, [by |-> th, ev |-> "end", text |-> <<>>])

\* (mutant) the helper's destructor does not delete the sink
SinkDeleted_Leaked(ss, k) == ss

\* delete m_dbg
SinkDeleted(ss, k) ==
  [ss EXCEPT ![k] = IF @ = "alive" THEN "destroyed" ELSE "destroyed twice"]

\* the history without the deliveries of a statement that is over
Forgotten(out, th) == SelectSeq(out, LAMBDA e : e.by # th)

\* the sink's destructor has run its body: its members and the sink itself go,
\* ~DebugHelper returns and the statement's full expression is over
StatementDone(th) ==
  /\ pc[th] = "stmt_done"
  /\ pc' = [pc EXCEPT ![th] = "idle"]
  /\ sinks' = SinkDeleted(sinks, stmt[th].dbg)
  /\ stmt' = [stmt EXCEPT ![th] = NoStmt]
  /\ appended' = [appended EXCEPT ![th] = <<>>]
  /\ console' = [console EXCEPT ![th] = <<>>]
  /\ handled' = [handled EXCEPT ![th] = <<>>]
  /\ UNCHANGED <<debugMutex, gateVars, local, ops, mgrMutex, warningFactory, debugFactory,
                 factories, debugCallback, buffer>>
  /\ UNCHANGED fileVars
  /\ UNCHANGED sigVars
  /\ output' = Forgotten(output, th)

\* ---- installMessageHandler ----
\* (mutant) debugCallback is assigned without TP_MUTEX_LOCKER(debugMutex)
InstallMessageHandler_Unlocked(th, h) ==
  /\ Call(th)
  /\ debugCallback' = h
  /\ pc' = [pc EXCEPT ![th] = "install_ret"]
  /\ local' = [local EXCEPT ![th] = [NoLocal EXCEPT !.cb = h]]
  /\ stmt' = [o \in Frames |->
                IF stmt[o] = NoStmt THEN NoStmt ELSE [stmt[o] EXCEPT !.steady = FALSE]]
  /\ UNCHANGED <<debugMutex, gateVars, mgrMutex, warningFactory, debugFactory, factories,
                 sinks, buffer, appended, console, handled>>
  /\ UNCHANGED fileVars
  /\ UNCHANGED sigVars
  /\ UNCHANGED outVars

InstallMessageHandler(th, h) ==
  /\ Call(th)
  /\ debugMutex = NoOwner
  /\ debugMutex' = th
  /\ debugCallback' = h
  /\ pc' = [pc EXCEPT ![th] = "install_ret"]
  /\ local' = [local EXCEPT ![th] = [NoLocal EXCEPT !.cb = h]]
  /\ stmt' = [o \in Frames |->
                IF stmt[o] = NoStmt THEN NoStmt ELSE [stmt[o] EXCEPT !.steady = FALSE]]
  /\ UNCHANGED <<gateVars, mgrMutex, warningFactory, debugFactory, factories, sinks, buffer,
                 appended,
                 console, handled>>
  /\ UNCHANGED fileVars
  /\ UNCHANGED sigVars
  /\ UNCHANGED outVars

\* ---- installSignalHandler, handleSignal ----
SIGABRT == 6

\* os << signum: the decimal digits of a number
Digits == <<"0", "1", "2", "3", "4", "5", "6", "7", "8", "9">>

RECURSIVE DecimalText(_)
DecimalText(n) ==
  IF n < Len(Digits) THEN <<Digits[n + 1]>>
  ELSE DecimalText(n \div Len(Digits)) \o <<Digits[(n % Len(Digits)) + 1]>>

\* tpWarning() << "Signal caught: " << signum
SignalText(signum) == <<"Signal caught: ">> \o DecimalText(signum)

\* signal(SIGABRT, &handleSignal)
InstallSignalHandler(th) ==
  /\ Call(th)
  /\ sigHandler' = "handleSignal"
  /\ UNCHANGED <<debugMutex, gateVars, pc, local, logVars, fileVars, interrupted>>
  /\ UNCHANGED outVars

\* SIGABRT is delivered to thread th, wherever it is: handleSignal(SIGABRT)
\* begins on top of it
SignalDelivered(th) ==
  /\ CallerStep
  /\ sigHandler # NoCallback
  /\ interrupted[th] = NotInterrupted
  /\ interrupted' = [interrupted EXCEPT ![th] = pc[th]]
  /\ pc' = [pc EXCEPT ![th] = "interrupted", ![FrameOf(th)] = "sig_entry"]
  /\ UNCHANGED <<debugMutex, gateVars, local, logVars, fileVars, sigHandler>>
  /\ UNCHANGED outVars

\* (mutant) the handler's produceWarning() goes on without the manager's mutex
SigProduceLock_Unlocked(f) ==
  /\ pc[f] = "sig_entry"
  /\ pc' = [pc EXCEPT ![f] = "produce"]
  /\ stmt' = [stmt EXCEPT ![f] = [NoStmt EXCEPT !.macro = "Warning", !.handler = debugCallback]]
  /\ UNCHANGED <<debugMutex, gateVars, local, ops, mgrMutex, warningFactory, debugFactory,
                 factories, sinks, debugCallback, buffer, appended, console, handled>>
  /\ UNCHANGED <<fileVars, sigVars>>
  /\ UNCHANGED outVars

\* the handler's tpWarning(): produceWarning() locks the manager's mutex, which
\* is not recursive: it waits, for ever if the thread below holds it
SigProduceLock(f) ==
  /\ pc[f] = "sig_entry"
  /\ ProduceAcquire(f, "Warning")
  /\ UNCHANGED <<ops, sigVars>>

\* << "Signal caught: " and << signum, one after the other
SigAppend(f) ==
  /\ pc[f] = "stmt"
  /\ Len(appended[f]) < Len(SignalText(SIGABRT))
  /\ LET frag == SignalText(SIGABRT)[Len(appended[f]) + 1]
     IN /\ buffer' = [buffer EXCEPT ![f] = Append(@, frag)]
        /\ appended' = [appended EXCEPT ![f] = Append(@, frag)]
  /\ UNCHANGED <<debugMutex, gateVars, pc, local, ops, mgrMutex, warningFactory,
                 debugFactory, factories, sinks, debugCallback, stmt, console, handled>>
  /\ UNCHANGED <<fileVars, sigVars>>
  /\ UNCHANGED outVars

\* the end of the handler's statement: the helper's destructor, as in any statement
SigStatementEnds(f) ==
  /\ appended[f] = SignalText(SIGABRT)
  /\ StatementEnds(f) \/ CustomStatementEnds(f)

\* the statement is over and its sink deleted; printStackTrace(); the handler
\* returns and the thread goes on where it was
SigReturn(th) ==
  /\ interrupted[th] # NotInterrupted
  /\ pc[FrameOf(th)] = "stmt_done"
  /\ sinks' = SinkDeleted(sinks, stmt[FrameOf(th)].dbg)
  /\ pc' = [pc EXCEPT ![th] = interrupted[th], ![FrameOf(th)] = "idle"]
  /\ interrupted' = [interrupted EXCEPT ![th] = NotInterrupted]
  /\ stmt' = [stmt EXCEPT ![FrameOf(th)] = NoStmt]
  /\ appended' = [appended EXCEPT ![FrameOf(th)] = <<>>]
  /\ console' = [console EXCEPT ![FrameOf(th)] = <<>>]
  /\ handled' = [handled EXCEPT ![FrameOf(th)] = <<>>]
  /\ UNCHANGED <<debugMutex, gateVars, local, ops, mgrMutex, warningFactory, debugFactory,
                 factories, debugCallback, buffer, fileVars, sigHandler>>
  /\ output' = Forgotten(output, FrameOf(th))

\* ---- FileUtils.cpp: readTextFile, readBinaryFile ----
\* everything but the file helpers' own state
coreVars == <<debugMutex, gateVars, pc, local, ops, logVars, sigVars, outVars>>

\* the proper prefixes of a text: what was read or written before an error
Prefixes(text) == {SubSeq(text, 1, k) : k \in 0..(Len(text) - 1)}

\* the underlying open, read or parse of a read call did not succeed
ReadFailed(f, env) == env # "ok" \/ ~f.exists

\* try { std::ifstream in(fileName); return std::string(istreambuf_iterator(in), {}); }
\* catch(...) { return std::string(); }
\* A stream that failed to open yields no characters. A read error ends the
\* iteration (the characters read so far are returned) or is thrown by the
\* stream buffer and caught, as the standard library has it.
ReadTextResults(f, env) ==
  IF env = "throws" THEN {<<>>}
  ELSE IF ~f.exists \/ env = "openFails" THEN {<<>>}
  ELSE IF env = "readFails" THEN {<<>>} \cup Prefixes(f.text)
  ELSE {f.text}

\* results.resize(size); in.read(results.data(), size): after a read error the
\* rest of the resized string keeps its zero bytes
ZeroPadded(part, size) == part \o [k \in 1..(size - Len(part)) |-> Zero]

\* tellg() of a stream that failed to open is -1, so nothing is read
ReadBinaryResults(f, env) ==
  IF env = "throws" THEN {<<>>}
  ELSE IF ~f.exists \/ env = "openFails" THEN {<<>>}
  ELSE IF env = "readFails"
       THEN {<<>>} \cup {ZeroPadded(part, Len(f.text)) : part \in Prefixes(f.text)}
  ELSE {f.text}

ReadTextFile(env) ==
  /\ \E r \in ReadTextResults(file, env) :
       io' = [NoIo EXCEPT !.fn = "readTextFile", !.env = env,
                          !.failed = ReadFailed(file, env), !.retText = r]
  /\ UNCHANGED <<file, coreVars>>

ReadBinaryFile(env) ==
  /\ \E r \in ReadBinaryResults(file, env) :
       io' = [NoIo EXCEPT !.fn = "readBinaryFile", !.env = env,
                          !.failed = ReadFailed(file, env), !.retText = r]
  /\ UNCHANGED <<file, coreVars>>

\* ---- writeTextFile, writeBinaryFile ----
\* try { std::ofstream out(fileName); out << textOutput; return true; }
\* catch(...) { return false; }
\* The stream does not throw on a failed open or write (its exception mask is
\* empty): it sets its fail bits, which are not looked at.
WriteTextReturns(env) == env # "throws"

\* the file after a write call: opening truncates it
FilesAfterWrite(f, text, env) ==
  IF env = "ok" THEN {[exists |-> TRUE, text |-> text]}
  ELSE IF env = "writeFails" THEN {[exists |-> TRUE, text |-> part] : part \in Prefixes(text)}
  ELSE {f}

WriteTextFile(text, env) ==
  /\ file' \in FilesAfterWrite(file, text, env)
  /\ io' = [NoIo EXCEPT !.fn = "writeTextFile", !.env = env, !.failed = (env # "ok"),
                        !.retBool = WriteTextReturns(env)]
  /\ UNCHANGED coreVars

WriteBinaryFile(text, env) ==
  /\ file' \in FilesAfterWrite(file, text, env)
  /\ io' = [NoIo EXCEPT !.fn = "writeBinaryFile", !.env = env, !.failed = (env # "ok"),
                        !.retBool = WriteTextReturns(env)]
  /\ UNCHANGED coreVars

\* ---- readJSONFile, writeJSONFile, writePrettyJSONFile ----
Strip(text) == SelectSeq(text, LAMBDA c : c \notin WhiteSpace)

\* nlohmann::json::parse(str): the value of a JSON text; anything else (the
\* empty text too) throws a parse error
Parse(text) ==
  LET t == Strip(text)
  IN IF t = <<"null">> THEN [ok |-> TRUE, value |-> JsonNull]
     ELSE IF t = <<"{", "}">> THEN [ok |-> TRUE, value |-> JsonObject]
     ELSE IF t = <<"[", "1", "]">> THEN [ok |-> TRUE, value |-> JsonArray]
     ELSE [ok |-> FALSE, value |-> JsonNull]

\* j.dump(indent): the text of a value; a string that is not UTF-8 throws a
\* type error. With indent >= 0 the elements of an array go on lines of their
\* own, indented.
Dump(j, indent) ==
  IF j.kind = "string" THEN [ok |-> FALSE, text |-> <<>>]
  ELSE IF j.kind = "null" THEN [ok |-> TRUE, text |-> <<"null">>]
  ELSE IF j.kind = "object" THEN [ok |-> TRUE, text |-> <<"{", "}">>]
  ELSE IF indent < 0 THEN [ok |-> TRUE, text |-> <<"[">> \o j.items \o <<"]">>]
  ELSE [ok |-> TRUE,
        text |-> <<"[", "\n">> \o [k \in 1..indent |-> " "] \o j.items \o <<"\n", "]">>]

\* try { str = readTextFile(fileName); return json::parse(str); }
\* catch(...) { return json(); }
ReadJSONFile(env) ==
  /\ \E r \in ReadTextResults(file, env) :
       io' = [NoIo EXCEPT !.fn = "readJSONFile", !.env = env,
                          !.failed = (ReadFailed(file, env) \/ ~Parse(r).ok),
                          !.retJson = Parse(r).value]
  /\ UNCHANGED <<file, coreVars>>

\* try { s = j.dump(indent); return writeTextFile(fileName, s); }
\* catch(...) { return false; }
WriteJSON(fn, j, indent, env) ==
  LET d == Dump(j, indent)
  IN /\ IF d.ok
        THEN /\ file' \in FilesAfterWrite(file, d.text, env)
             /\ io' = [NoIo EXCEPT !.fn = fn, !.env = env, !.failed = (env # "ok"),
                                   !.retBool = WriteTextReturns(env)]
        ELSE /\ file' = file
             /\ io' = [NoIo EXCEPT !.fn = fn, !.env = env, !.failed = TRUE,
                                   !.retBool = FALSE]
     /\ UNCHANGED coreVars

WriteJSONFile(j, indent, env) == WriteJSON("writeJSONFile", j, indent, env)

\* s = j.dump(2)
WritePrettyJSONFile(j, env) == WriteJSON("writePrettyJSONFile", j, PrettyIndent, env)

\* the caller's own steps
Caller ==
  \/ \E g \in Gates, p \in ClassPathValues : CallerAssigns(g, p)
  \/ \E g \in Gates : CallerEndsLifetime(g)

\* construction, destruction and enable(), common to the specifications
Lifecycle ==
  \/ \E th \in Threads, g \in Gates, p \in ClassPathValues, t \in DebugTypes :
       CtorRegister(th, g, p, t)
  \/ \E th \in Threads : CtorSeed(th)
  \/ \E th \in Threads, p \in ClassPathValues, t \in DebugTypes, v \in BOOLEAN :
       EnableStore(th, p, t, v)
  \/ \E th \in Threads : EnableLoop(th)
  \/ \E th \in Threads : EnableDone(th)
  \/ \E th \in Threads : Return(th)

\* the gate registry: construction, destruction, enable(), classPaths(), operator()
Registry ==
  \/ Lifecycle
  \/ \E th \in Threads, g \in Gates : Dtor(th, g)
  \/ \E th \in Threads, t \in DebugTypes : ClassPaths(th, t)
  \/ \E th \in Threads, g \in Gates : Query(th, g)

Next ==
  \/ Registry
  \/ Caller

Spec == Init /\ [][Next]_vars

\* the registry used by callers that keep every string they passed to a
\* constructor alive and unchanged while the gate lives
SpecStable == Init /\ [][Registry]_vars

\* the table path: setTable() and installTableCallback() against enable()
Table ==
  \/ Lifecycle
  \/ \E th \in Threads, cb \in TableCallbacks \cup {NoCallback} : InstallTableCallback(th, cb)
  \/ \E th \in Threads, g \in Gates, payload \in Payloads : SetTableRead(th, g, payload)
  \/ \E th \in Threads : SetTableLocked(th)
  \/ \E th \in Threads : TableCallbackReturns(th)

NextTable ==
  \/ Table
  \/ Caller

\* The application may have installed its table callback at start-up: each of
\* these states is Init followed by one installTableCallback() call.
InitTable ==
  /\ tableCallback \in TableCallbacks \cup {NoCallback}
  /\ debugCallback = NoCallback
  /\ file = NoFile
  /\ sigHandler = NoCallback
  /\ InitRest

SpecTable == InitTable /\ [][NextTable]_vars

SpecTableStable == InitTable /\ [][Table]_vars

\* warning and debug statements against installMessageHandler()
NextLog ==
  \/ \E th \in Threads, macro \in MessageTypes : ProduceLock(th, macro)
  \/ \E th \in Threads : ProduceReturn(th)
  \/ \E th \in Threads, f \in Fragments : StreamAppend(th, f)
  \/ \E th \in Threads : StreamFlush(th)
  \/ \E th \in Threads : StatementEnds(th)
  \/ \E th \in Threads : SyncEmit(th)
  \/ \E th \in Threads : HandlerReturns(th)
  \/ \E th \in Threads : SyncClear(th)
  \/ \E th \in Threads : StatementDone(th)
  \/ \E th \in Threads, h \in MessageHandlers \cup {NoCallback} : InstallMessageHandler(th, h)
  \/ \E th \in Threads : Return(th)

SpecLog == Init /\ [][NextLog]_vars

\* the dispatch manager: setWarning() and setDebug() against statements
NextDispatch ==
  \/ \E th \in Threads, macro \in MessageTypes : SetFactory(th, macro)
  \/ \E th \in Threads : SetReturn(th)
  \/ \E th \in Threads, macro \in MessageTypes : ProduceLock(th, macro)
  \/ \E th \in Threads : ProduceReturn(th)
  \/ \E th \in Threads, f \in Fragments : StreamAppend(th, f)
  \/ \E th \in Threads : StreamFlush(th)
  \/ \E th \in Threads : StatementEnds(th)
  \/ \E th \in Threads : CustomStatementEnds(th)
  \/ \E th \in Threads : SyncEmit(th)
  \/ \E th \in Threads : SyncClear(th)
  \/ \E th \in Threads : StatementDone(th)

SpecDispatch == Init /\ [][NextDispatch]_vars

\* every operation on the shared state together: the registry, the two
\* callbacks, the statements and the manager. The arguments are cut down to one
\* class path, one type and one payload: the locks do not depend on them.
SharedPaths == {"A"}
SharedTypes == {"Table"}
SharedPayloads == {"x"}
SharedValues == {TRUE}
SharedMacros == {"Warning"}

\* The application may have installed its callbacks at start-up: each of these
\* states is Init followed by installTableCallback() and installMessageHandler().
InitShared ==
  /\ tableCallback \in TableCallbacks \cup {NoCallback}
  /\ debugCallback \in MessageHandlers \cup {NoCallback}
  /\ file = NoFile
  /\ sigHandler = NoCallback
  /\ InitRest

NextShared ==
  \/ \E th \in Threads, g \in Gates, p \in SharedPaths, t \in SharedTypes :
       CtorRegister(th, g, p, t)
  \/ \E th \in Threads : CtorSeed(th)
  \/ \E th \in Threads, g \in Gates : Dtor(th, g)
  \/ \E th \in Threads, p \in SharedPaths, t \in SharedTypes, v \in SharedValues :
       EnableStore(th, p, t, v)
  \/ \E th \in Threads : EnableLoop(th)
  \/ \E th \in Threads : EnableDone(th)
  \/ \E th \in Threads, t \in SharedTypes : ClassPaths(th, t)
  \/ \E th \in Threads, cb \in TableCallbacks : InstallTableCallback(th, cb)
  \/ \E th \in Threads, g \in Gates, payload \in SharedPayloads : SetTableRead(th, g, payload)
  \/ \E th \in Threads : SetTableLocked(th)
  \/ \E th \in Threads : TableCallbackReturns(th)
  \/ \E th \in Threads, h \in MessageHandlers : InstallMessageHandler(th, h)
  \/ \E th \in Threads : Return(th)
  \/ \E th \in Threads, macro \in SharedMacros : SetFactory(th, macro)
  \/ \E th \in Threads : SetReturn(th)
  \/ \E th \in Threads, macro \in SharedMacros : ProduceLock(th, macro)
  \/ \E th \in Threads : ProduceReturn(th)
  \/ \E th \in Threads : StatementEnds(th)
  \/ \E th \in Threads : CustomStatementEnds(th)
  \/ \E th \in Threads : SyncEmit(th)
  \/ \E th \in Threads : HandlerReturns(th)
  \/ \E th \in Threads : SyncClear(th)
  \/ \E th \in Threads : StatementDone(th)

SpecShared == InitShared /\ [][NextShared]_vars

\* the steps of NextShared that carry on an operation that has begun
SharedProgress ==
  \/ \E th \in Threads : CtorSeed(th)
  \/ \E th \in Threads : EnableLoop(th)
  \/ \E th \in Threads : EnableDone(th)
  \/ \E th \in Threads : SetTableLocked(th)
  \/ \E th \in Threads : TableCallbackReturns(th)
  \/ \E th \in Threads : Return(th)
  \/ \E th \in Threads : SetReturn(th)
  \/ \E th \in Threads : ProduceReturn(th)
  \/ \E th \in Threads : StatementEnds(th)
  \/ \E th \in Threads : CustomStatementEnds(th)
  \/ \E th \in Threads : SyncEmit(th)
  \/ \E th \in Threads : HandlerReturns(th)
  \/ \E th \in Threads : SyncClear(th)
  \/ \E th \in Threads : StatementDone(th)

\* the same operations under a scheduler that lets no thread that can take a
\* step wait for ever; the callbacks return
SpecSharedFair == InitShared /\ [][NextShared]_vars /\ WF_vars(SharedProgress)

\* the signal handler against operations that hold a lock: setWarning() and
\* produceWarning() the manager's mutex, the flush of a statement debugMutex
SignalStart ==
  \/ \E th \in Threads : InstallSignalHandler(th)
  \/ \E th \in Threads : SignalDelivered(th)
  \/ \E th \in Threads, macro \in SharedMacros : SetFactory(th, macro)
  \/ \E th \in Threads, macro \in SharedMacros : ProduceLock(th, macro)

\* the steps that carry on what has begun
SignalProgress ==
  \/ \E th \in Threads : SetReturn(th)
  \/ \E th \in Threads : StatementEnds(th)
  \/ \E th \in Threads : CustomStatementEnds(th)
  \/ \E th \in Threads : StatementDone(th)
  \/ \E th \in Frames : ProduceReturn(th)
  \/ \E th \in Frames : SyncEmit(th)
  \/ \E th \in Frames : HandlerReturns(th)
  \/ \E th \in Frames : SyncClear(th)
  \/ \E f \in SignalFrames : SigProduceLock(f)
  \/ \E f \in SignalFrames : SigAppend(f)
  \/ \E f \in SignalFrames : SigStatementEnds(f)
  \/ \E th \in Threads : SigReturn(th)

NextSignal ==
  \/ SignalStart
  \/ SignalProgress

\* The application may have called installMessageHandler() at start-up. The
\* scheduler lets no thread that can take a step wait for ever.
InitSignal ==
  /\ tableCallback = NoCallback
  /\ debugCallback \in MessageHandlers \cup {NoCallback}
  /\ file = NoFile
  /\ sigHandler = NoCallback
  /\ InitRest

SpecSignal == InitSignal /\ [][NextSignal]_vars /\ WF_vars(SignalProgress)

\* the file helpers, called one after the other on a file that exists, with any
\* text, or does not
InitFile ==
  /\ tableCallback = NoCallback
  /\ debugCallback = NoCallback
  /\ file \in {NoFile} \cup {[exists |-> TRUE, text |-> t] : t \in FileTexts}
  /\ sigHandler = NoCallback
  /\ InitRest

NextFile ==
  \/ \E env \in ReadEnvs : ReadTextFile(env)
  \/ \E env \in ReadEnvs : ReadBinaryFile(env)
  \/ \E text \in FileTexts, env \in WriteEnvs : WriteTextFile(text, env)
  \/ \E text \in FileTexts, env \in WriteEnvs : WriteBinaryFile(text, env)
  \/ \E env \in ReadEnvs : ReadJSONFile(env)
  \/ \E j \in JsonValues, indent \in Indents, env \in WriteEnvs : WriteJSONFile(j, indent, env)
  \/ \E j \in JsonValues, env \in WriteEnvs : WritePrettyJSONFile(j, env)

SpecFile == InitFile /\ [][NextFile]_vars

(***************************************************************************)
(* The claims                                                              *)
(***************************************************************************)

\* the value of the latest enable(p, t, v) call, false when there was none
LastEnableValue(p, t) ==
  IF <<p, t>> \in DOMAIN lastEnable THEN lastEnable[<<p, t>>] ELSE FALSE

\* thread th is inside the critical section of a constructor, a destructor or enable()
InRegistryCS(th) ==
  pc[th] \in {"ctor_seed", "ctor_ret", "enable_loop", "enable_ret", "dtor_ret"}

\* gate g is live for the pair (p, t) it was constructed with
LiveFor(g, p, t) == Live(g) /\ ctorPath[g] = p /\ debugType[g] = t

\* C1: whenever no thread is inside a constructor, destructor or enable()
\* critical section, every live gate's flag equals the value of the latest
\* enable() call for the pair the gate was constructed with (false if none).
C1_FlagFollowsLastEnable ==
  (\A th \in Threads : ~InRegistryCS(th)) =>
    \A g \in Gates : Live(g) => enabled[g] = LastEnableValue(ctorPath[g], debugType[g])

\* C2: when enable(p, t, v) returns, every gate live for (p, t) reads v, be v
\* true or false, without having been reconstructed.
C2_EnableReachesLiveGates ==
  \A th \in Threads : pc[th] = "enable_ret" =>
    \A g \in Gates :
      LiveFor(g, local[th].path, local[th].type) => GateReads(g) = local[th].val

\* C3: a gate constructed for (p, t) reads, when its constructor returns, the
\* value of the latest enable(p, t, v) call, and false if there was none.
C3_CtorSeedsFromLastEnable ==
  \A th \in Threads : pc[th] = "ctor_ret" =>
    GateReads(local[th].gate) = LastEnableValue(local[th].path, local[th].type)

\* C3 witness: a constructor returns a gate that reads true, the only two calls
\* so far being an enable() made while no gate existed and this constructor
C3_Witness ==
  \E th \in Threads :
    /\ pc[th] = "ctor_ret"
    /\ GateReads(local[th].gate)
    /\ debugModeObjects = <<local[th].gate>>
    /\ ops = 2

\* a step of thread th inside enable(): the store into the map, or one
\* iteration of the loop over the gates
EnableStoreStep(th) == pc[th] = "idle" /\ pc'[th] = "enable_loop"
EnableLoopStep(th) ==
  pc[th] = "enable_loop" /\ pc'[th] = "enable_loop" /\ local'[th].i # local[th].i

\* C4: enable(p, t, v) changes the flag of no live gate constructed with
\* another class path or another type, and no stored entry but that of (p, t).
C4_EnableIsPairExact ==
  [][\A th \in Threads :
       /\ EnableLoopStep(th) =>
            \A g \in Gates :
              (Live(g) /\ ~LiveFor(g, local[th].path, local[th].type))
                => enabled'[g] = enabled[g]
       /\ EnableStoreStep(th) =>
            /\ enabled' = enabled
            /\ \A pr \in DOMAIN enabledDebugModeObjects :
                 pr # <<local'[th].path, local'[th].type>> =>
                   /\ pr \in DOMAIN enabledDebugModeObjects'
                   /\ enabledDebugModeObjects'[pr] = enabledDebugModeObjects[pr]
            /\ DOMAIN enabledDebugModeObjects' \subseteq
                 DOMAIN enabledDebugModeObjects \cup {<<local'[th].path, local'[th].type>>}
    ]_vars

\* the step of thread th that runs a destructor
DtorStep(th) == pc[th] = "idle" /\ pc'[th] = "dtor_ret"

\* s without its elements equal to x
Without(s, x) == SelectSeq(s, LAMBDA e : e # x)

\* C5: destroying a gate takes that gate, and nothing else, out of the live
\* gates; the stored flags and the other live gates are as they were, and the
\* stored flags still hold the latest enable() value of every pair (which a
\* gate constructed afterwards is seeded with, C3).
C5_DtorRemovesOnlyItself ==
  [][\A th \in Threads : DtorStep(th) =>
       LET g == local'[th].gate
       IN /\ debugModeObjects' = Without(debugModeObjects, g)
          /\ Len(debugModeObjects') = Len(debugModeObjects) - 1
          /\ enabledDebugModeObjects' = enabledDebugModeObjects
          /\ \A pr \in DOMAIN lastEnable :
               /\ pr \in DOMAIN enabledDebugModeObjects'
               /\ enabledDebugModeObjects'[pr] = lastEnable[pr]
          /\ tableCallback' = tableCallback
          /\ \A o \in Gates \ {g} :
               /\ enabled'[o] = enabled[o]
               /\ ctorPath'[o] = ctorPath[o]
               /\ debugType'[o] = debugType[o]
    ]_vars

\* C5 witness: the gate constructed first has been destroyed while a second gate
\* is live and a flag is stored
C5_Witness ==
  \E th \in Threads :
    /\ pc[th] = "dtor_ret"
    /\ local[th].gate = 1
    /\ debugModeObjects = <<2>>
    /\ DOMAIN enabledDebugModeObjects # {}

\* the class paths, as passed to the constructors, of the live gates of type t
\* from the k-th constructed on, in the order of construction
RECURSIVE PathsFromRank(_, _)
PathsFromRank(k, t) ==
  IF k > Cardinality({g \in Gates : ctorRank[g] > 0}) THEN <<>>
  ELSE LET g == CHOOSE o \in Gates : ctorRank[o] = k
       IN (IF debugType[g] = t THEN <<ctorPath[g]>> ELSE <<>>) \o PathsFromRank(k + 1, t)

\* C6: classPaths(t) returns the class paths of the gates live with type t, one
\* entry per gate, in the order the gates were constructed.
C6_ClassPathsListsLiveGates ==
  \A th \in Threads : pc[th] = "classPaths_ret" =>
    local[th].result = PathsFromRank(1, local[th].type)

\* C7, as claimed: whenever the table callback runs on behalf of gate g, g's
\* flag is true.
C7_CallbackOnlyWhileEnabled ==
  \A th \in Threads : pc[th] = "setTable_cb" => enabled[local[th].gate]

\* C7, amended: the table callback runs on behalf of g only in a setTable()
\* call whose own lock-free read of g's flag returned true (the flag may have
\* been cleared by an enable() between that read and the lock).
C7_CallbackOnlyAfterEnabledRead ==
  \A th \in Threads : local[th].invoked > 0 => local[th].val

\* C7 witness: the table callback is running for a gate after a read of true
C7_Witness ==
  \E th \in Threads :
    pc[th] = "setTable_cb" /\ local[th].val /\ local[th].invoked = 1

\* C8: the table callback that runs is the installed one and gets the class path
\* the gate was constructed with, the gate's type and the payload of the call;
\* a setTable() that took the lock has called it once if one is installed and
\* not at all otherwise.
C8_CallbackGetsExactTriple ==
  \A th \in Threads :
    /\ pc[th] = "setTable_cb" =>
         /\ local[th].cb = tableCallback
         /\ local[th].cb # NoCallback
         /\ local[th].path = ctorPath[local[th].gate]
         /\ local[th].type = debugType[local[th].gate]
         /\ local[th].result = <<local[th].payload>>
    /\ (pc[th] = "setTable_ret" /\ debugMutex = th) =>
         local[th].invoked = IF tableCallback # NoCallback THEN 1 ELSE 0

\* a step of thread th inside setTable()
SetTableStep(th) ==
  \/ pc[th] = "idle" /\ pc'[th] \in {"setTable_lock", "setTable_ret"}
  \/ pc[th] \in {"setTable_lock", "setTable_cb"} /\ pc'[th] # pc[th]

\* setTable() changes no state of the registry, with or without a callback
SetTableChangesNothing ==
  [][\A th \in Threads : SetTableStep(th) => UNCHANGED gateVars]_vars

\* C9: the classification the message handler gets is that of the statement
\* whose sink is flushed: Warning for tpWarning, Debug for tpDebug.
C9_HandlerGetsStatementType ==
  \A th \in Threads : pc[th] = "sync_cb" =>
    handled[th][Len(handled[th])].type = stmt[th].macro

\* the concatenation of the texts in s
RECURSIVE Concat(_)
Concat(s) == IF s = <<>> THEN <<>> ELSE Head(s) \o Concat(Tail(s))

\* C10: a statement none of whose flushes met a message handler has, when it is
\* over, written to the console its fragments in append order followed by one
\* line terminator, and before that the console and the buffer together hold
\* each appended fragment once; the buffer is empty after the last flush.
C10_ConsoleGetsTextOnce ==
  \A th \in Threads : (stmt[th].sink = "Default" /\ handled[th] = <<>>) =>
    /\ pc[th] = "stmt" => Concat(console[th]) \o buffer[th] = appended[th]
    /\ pc[th] = "stmt_done" =>
         /\ Concat(console[th]) = appended[th] \o <<NewLine>>
         /\ buffer[th] = <<>>

\* C10 witness: a finished statement of two fragments with an explicit flush
\* between them, all on the console
C10_Witness ==
  \E th \in Threads :
    /\ pc[th] = "stmt_done"
    /\ handled[th] = <<>>
    /\ Len(appended[th]) = 2
    /\ Len(console[th]) = 2
    /\ console[th][1] # <<>>

\* the texts the message handler got from the calls in hs, in order
RECURSIVE HandledText(_)
HandledText(hs) == IF hs = <<>> THEN <<>> ELSE Head(hs).text \o HandledText(Tail(hs))

\* thread th is between two flushes of its statement, or its statement is over
BetweenFlushes(th) == pc[th] \in {"stmt", "stmt_done"}

LiveFactories == {f \in FactoryIds : factories[f].alive}

\* the factory installed latest for a classification: factory objects are
\* numbered in the order of their making
LatestFactoryFor(macro) ==
  CHOOSE f \in FactoryIds :
    /\ factories[f].for = macro
    /\ \A o \in FactoryIds : factories[o].for = macro => o <= f

\* C12: at all times, and so whenever a produce call uses it, the factory
\* installed for a classification is the one handed over by the latest
\* setWarning (setDebug) call, or the default one if there was none, and it is
\* alive; the two installed factories are the only ones alive: each set call
\* has destroyed the factory it replaced and no other.
C12_OneLiveFactoryEach ==
  /\ \A macro \in MessageTypes :
       /\ FactoryFor(macro) = LatestFactoryFor(macro)
       /\ factories[FactoryFor(macro)].alive
  /\ LiveFactories = {warningFactory, debugFactory}
  /\ warningFactory # debugFactory
  /\ \A th \in Threads : pc[th] = "produce" =>
       /\ mgrMutex = th
       /\ factories[FactoryFor(stmt[th].macro)].for = stmt[th].macro

\* C12 witness: a produce call is using a factory installed by setWarning()
\* after setDebug() had replaced the other one
C12_Witness ==
  \E th \in Threads :
    /\ pc[th] = "produce"
    /\ stmt[th].macro = "Warning"
    /\ warningFactory \notin DefaultFactories
    /\ debugFactory \notin DefaultFactories

\* every operation that was started has finished
AllFinished == \A th \in Threads : pc[th] = "idle"

\* the gates constructed and not destroyed since (ctorRank is set by the
\* constructor and reset by the destructor)
ConstructedNotDestroyed == {g \in Gates : ctorRank[g] > 0}

\* C13: once all operations have finished, the stored flag of every pair is the
\* value of the enable() call for it that took the lock last, every live gate's
\* flag is that value for the pair it was constructed with (false if no call
\* named it), and the live gates are exactly the gates constructed and not yet
\* destroyed, each listed once.
C13_NoLostUpdate ==
  AllFinished =>
    /\ DOMAIN enabledDebugModeObjects = DOMAIN lastEnable
    /\ \A pr \in DOMAIN lastEnable : enabledDebugModeObjects[pr] = lastEnable[pr]
    /\ \A g \in Gates :
         Live(g) => enabled[g] = LastEnableValue(ctorPath[g], debugType[g])
    /\ SeqToSet(debugModeObjects) = ConstructedNotDestroyed
    /\ Len(debugModeObjects) = Cardinality(ConstructedNotDestroyed)

\* thread th runs a log statement whose helper holds a sink
InFlight(th) == stmt[th].dbg # NoSink

LiveSinks == {k \in SinkIds : sinks[k] = "alive"}

\* thread th is writing to its sink or flushing it
UsesSink(th) == pc[th] \in {"stmt", "sync_lock", "sync_cb", "sync_clear", "stmt_done"}

\* text ends with the line terminator
EndsLine(text) == text # <<>> /\ text[Len(text)] = NewLine

\* C14: the sinks alive are the sinks held by the statements in flight, one
\* each and no two the same; no sink was destroyed twice; a statement writes to
\* and flushes only a sink that is alive; and when the built-in sink of a
\* statement is about to go, its destructor has made the final flush, which
\* carried the line terminator.
C14_OneLiveSinkPerStatement ==
  /\ LiveSinks = {stmt[th].dbg : th \in {o \in Threads : InFlight(o)}}
  /\ \A a, b \in Threads : (InFlight(a) /\ InFlight(b) /\ a # b) => stmt[a].dbg # stmt[b].dbg
  /\ \A k \in SinkIds : sinks[k] # "destroyed twice"
  /\ \A th \in Threads :
       /\ UsesSink(th) => (InFlight(th) /\ sinks[stmt[th].dbg] = "alive")
       /\ ~UsesSink(th) => ~InFlight(th)
       /\ (pc[th] = "stmt_done" /\ stmt[th].sink = "Default") =>
            /\ stmt[th].flushes >= 1
            /\ Len(handled[th]) + Len(console[th]) = stmt[th].flushes
            /\ buffer[th] = <<>>
            /\ \/ /\ console[th] # <<>>
                  /\ EndsLine(console[th][Len(console[th])])
               \/ /\ handled[th] # <<>>
                  /\ EndsLine(handled[th][Len(handled[th])].text)

\* C14 witness: one statement is over and its sink destroyed while another
\* statement, issued after it, is in flight with a sink of its own
C14_Witness ==
  \E th \in Threads, k \in SinkIds :
    /\ sinks[k] = "destroyed"
    /\ InFlight(th)
    /\ pc[th] = "stmt_done"
    /\ stmt[th].dbg # k

ReadHelpers == {"readTextFile", "readBinaryFile"}
WriteHelpers == {"writeTextFile", "writeBinaryFile", "writeJSONFile", "writePrettyJSONFile"}

\* C15: a read helper whose underlying open or read failed returns the empty
\* string, readJSONFile whose read or parse failed returns the empty JSON value,
\* and a write helper returns true exactly when the underlying write succeeded.
C15_FailureGivesSentinel ==
  /\ (io.fn \in ReadHelpers /\ io.failed) => io.retText = <<>>
  /\ (io.fn = "readJSONFile" /\ io.failed) => io.retJson = JsonNull
  /\ io.fn \in WriteHelpers => (io.retBool <=> ~io.failed)

\* the part of C15 on the write helpers alone
C15_WriteReportsFailure ==
  io.fn \in WriteHelpers => (io.retBool <=> ~io.failed)

\* the part of C15 on readJSONFile, and on the read helpers when the open fails
C15_ReadSentinels ==
  /\ (io.fn = "readJSONFile" /\ io.failed) => io.retJson = JsonNull
  /\ (io.fn \in ReadHelpers /\ io.failed /\ io.env # "readFails") => io.retText = <<>>

\* C16, as claimed: one lock protects all the shared state, so an operation on
\* the factories and an operation on the registry or the callbacks never are
\* inside their critical sections at the same time.
C16_OneLockForAll == mgrMutex = NoOwner \/ debugMutex = NoOwner

\* the step is one of thread th
Acts(th) == pc'[th] # pc[th] \/ local'[th] # local[th]

\* thread th holds the lock during the step (it may take it or release it with the step)
HoldsDuring(th, before, after) ==
  /\ before = th \/ after = th
  /\ before \in {NoOwner, th}
  /\ after \in {NoOwner, th}

\* the step writes the installed factories or destroys one, or is the read of
\* one by a produce call
TouchesFactories(th) ==
  \/ <<warningFactory, debugFactory>>' # <<warningFactory, debugFactory>>
  \/ \E f \in FactoryIds : factories[f].alive /\ ~factories'[f].alive
  \/ pc[th] = "produce" /\ pc'[th] # "produce"

\* the step writes the flag table, the live gates, a gate's flag or one of the two
\* callbacks, or is a read of them by a constructor, enable(), classPaths(),
\* setTable() under its lock, or a flush
TouchesRegistry(th) ==
  \/ <<enabledDebugModeObjects, debugModeObjects, enabled, tableCallback, debugCallback>>'
       # <<enabledDebugModeObjects, debugModeObjects, enabled, tableCallback, debugCallback>>
  \/ pc[th] \in {"ctor_seed", "enable_loop", "setTable_lock", "sync_lock"} /\ Acts(th)
  \/ pc[th] # "classPaths_ret" /\ pc'[th] = "classPaths_ret"

\* the lock-free steps: operator() and the first read of setTable()
ReadsFlagOnly(th) ==
  /\ pc[th] = "idle"
  /\ pc'[th] \in {"query_ret", "setTable_lock", "setTable_ret"}

\* C16, amended: there are two locks. Every write of the installed factories and
\* every read of them by a produce call happens while the acting thread holds
\* the manager's mutex; every write of the flag table, the live gates, a gate's
\* flag, the message handler and the table callback, and every read of them but
\* the read of a gate's own flag, happens while the acting thread holds
\* debugMutex; the steps that hold neither lock and read shared state are the
\* reads of a gate's flag.
C16_EachUnderItsLock ==
  [][\A th \in Threads : Acts(th) =>
       /\ TouchesFactories(th) => HoldsDuring(th, mgrMutex, mgrMutex')
       /\ TouchesRegistry(th) => HoldsDuring(th, debugMutex, debugMutex')
       /\ ReadsFlagOnly(th) => UNCHANGED <<mgrMutex, debugMutex, gateVars>>
    ]_vars

\* C16 witness: setWarning() is inside its critical section, holding the manager's
\* mutex, while enable() is inside its own, holding debugMutex
C16_Witness ==
  \E a, b \in Threads :
    /\ pc[a] = "set_ret" /\ mgrMutex = a
    /\ pc[b] = "enable_loop" /\ debugMutex = b

\* ---- C21 ----
\* C21: for every live gate, what enable() compares and classPaths() returns as
\* its class path, the string read through d->classPath, is the value that was
\* passed to the gate's constructor, whatever the caller has done since with
\* the string object it passed.
C21_ClassPathStable ==
  \A g \in Gates : Live(g) => ReadClassPath(g) = {ctorPath[g]}

\* ---- C18 ----
\* th holds one of the two locks
HoldsALock(th) == mgrMutex = th \/ debugMutex = th

\* th is inside an operation of the library
Started(th) == pc[th] # "idle"

\* th is at a lock() of debugMutex that comes after the start of its operation:
\* the flush of its sink, the locked part of setTable()
WaitsForDebugMutex(th) == pc[th] \in {"sync_lock", "setTable_lock"}

\* no thread holds both locks, none waits for debugMutex while holding the
\* manager's mutex, and a thread outside every operation (where the lock() of
\* each other operation is waited for) holds no lock
NoLockInsideLock ==
  \A th \in Threads :
    /\ ~(mgrMutex = th /\ debugMutex = th)
    /\ WaitsForDebugMutex(th) => mgrMutex # th
    /\ ~Started(th) => ~HoldsALock(th)

\* while an operation is under way some thread can take a step of one
NoDeadlock == (\E th \in Threads : Started(th)) => ENABLED SharedProgress

\* C18: with no signal and with callbacks that return without calling the
\* library, no thread waits for one lock while holding the other, no reachable
\* state with an operation under way is without a next step, and under fair
\* scheduling every operation that has started returns and has released its
\* locks: a behaviour starts no more than MaxOps operations, and it reaches a
\* state, and stays there, where no thread is inside an operation or holds a
\* lock.
C18_NoDeadlockAndCompletion ==
  /\ []NoLockInsideLock
  /\ []NoDeadlock
  /\ <>[](\A th \in Threads : ~Started(th) /\ ~HoldsALock(th))

\* C18 witness: one thread waits at the flush of its statement for debugMutex,
\* which another thread holds inside enable(), while the manager's mutex is free
C18_Witness ==
  \E a, b \in Threads :
    /\ pc[a] = "sync_lock" /\ debugMutex = b /\ pc[b] = "enable_loop"
    /\ mgrMutex = NoOwner

\* C18 witness (both locks in use): one thread is inside setWarning() with the
\* manager's mutex while another runs the message handler under debugMutex
C18_WitnessBothHeld ==
  \E a, b \in Threads :
    /\ pc[a] = "set_ret" /\ mgrMutex = a
    /\ pc[b] = "sync_cb" /\ debugMutex = b

\* ---- C19 ----
\* th is inside an invocation of the table callback or of the message handler
InCallback(th) == pc[th] \in {"setTable_cb", "sync_cb"}

\* th is inside the locked part of a gate's constructor or destructor, of
\* enable() or of an install call
InMutation(th) ==
  pc[th] \in {"ctor_seed", "ctor_ret", "dtor_ret", "enable_loop", "enable_ret", "install_ret"}

\* the callback th is running
Running(th) ==
  IF pc[th] = "setTable_cb" THEN local[th].cb ELSE handled[th][Len(handled[th])].h

\* the callback installed for the call th is making
InstalledFor(th) == IF pc[th] = "setTable_cb" THEN tableCallback ELSE debugCallback

\* at most one invocation at a time, under debugMutex, with no constructor,
\* destructor, enable() or install call under way, of the callback installed
CallbacksExclusive ==
  \A th \in Threads :
    InCallback(th) =>
      /\ debugMutex = th
      /\ \A o \in Threads \ {th} : ~InCallback(o) /\ ~InMutation(o)
      /\ Running(th) # NoCallback
      /\ Running(th) = InstalledFor(th)

\* C19: invocations of the message handler and of the table callback exclude
\* each other, callback replacement and registry mutation: at most one
\* invocation is in progress at any time; none of installMessageHandler(),
\* installTableCallback(), enable() and a gate's constructor or destructor is
\* under way, and no step changes the callbacks, the flag table, the live gates
\* or a gate's flag, while one is in progress; so the callback that runs is the
\* one installed when the flush or setTable() took the lock, and it stays
\* installed until it returns.
C19_CallbacksExclusive ==
  /\ []CallbacksExclusive
  /\ [][(\E th \in Threads : InCallback(th) /\ InCallback(th)') =>
         UNCHANGED <<debugCallback, tableCallback, enabledDebugModeObjects,
                     debugModeObjects, enabled>>]_vars

\* C19 witness: the message handler runs on one thread while another thread
\* waits in setTable() for the lock to call the table callback
C19_Witness ==
  \E a, b \in Threads :
    /\ pc[a] = "sync_cb" /\ debugMutex = a
    /\ pc[b] = "setTable_lock" /\ tableCallback # NoCallback

\* C19 witness (table callback): the table callback runs while a statement of
\* another thread waits at its flush
C19_WitnessTable ==
  \E a, b \in Threads :
    /\ pc[a] = "setTable_cb" /\ debugMutex = a
    /\ pc[b] = "sync_lock" /\ debugCallback # NoCallback

\* ---- C20 ----
\* th is inside the locked part of a flush: its text is being delivered
InFlush(th) == pc[th] \in {"sync_cb", "sync_clear"}

BeginsBy(th) == SelectSeq(output, LAMBDA e : e.by = th /\ e.ev = "begin")

\* the texts the flushes of th's statement delivered, one after the other
DeliveredBy(th) == Concat([i \in 1..Len(BeginsBy(th)) |-> BeginsBy(th)[i].text])

\* every delivery that began is over before the next one begins, or is the
\* latest event, its thread still being inside the flush with the lock
DeliveriesApart ==
  \A i \in 1..Len(output) :
    IF output[i].ev = "begin"
    THEN \/ /\ i = Len(output)
            /\ InFlush(output[i].by)
            /\ debugMutex = output[i].by
         \/ /\ i < Len(output)
            /\ output[i + 1].ev = "end"
            /\ output[i + 1].by = output[i].by
    ELSE /\ i > 1
         /\ output[i - 1].ev = "begin"
         /\ output[i - 1].by = output[i].by

\* C20: statements of different threads do not interleave their text. What the
\* statements under way have put out is a sequence of deliveries, one for each
\* flush in the order the flushes took the lock, each over before the next
\* begins and as many as the statement's calls of the handler and writes to the
\* console; a delivery carries
\* the whole text its sink's buffer held, and the deliveries of a statement
\* together carry the fragments the statement appended, in order, and the line
\* terminator at its end, with nothing of another statement among them.
C20_WholeTextsInLockOrder ==
  /\ DeliveriesApart
  /\ \A th \in Threads :
       stmt[th].sink = "Default" =>
         /\ InFlush(th) =>
              output[Len(output)] = [by |-> th, ev |-> "begin", text |-> buffer[th]]
         /\ Len(BeginsBy(th)) = Len(handled[th]) + Len(console[th])
         /\ pc[th] = "stmt" => DeliveredBy(th) \o buffer[th] = appended[th]
         /\ pc[th] = "stmt_done" => DeliveredBy(th) = appended[th] \o <<NewLine>>

\* C20 witness: the text of one statement is being delivered while the flush of
\* another thread's statement, which holds a fragment, waits for the lock, after
\* an earlier delivery
C20_Witness ==
  \E a, b \in Threads :
    /\ InFlush(a) /\ debugMutex = a
    /\ pc[b] = "sync_lock" /\ appended[b] # <<>>
    /\ Len(output) > 2

\* C20 witness (two statements): the output holds complete deliveries of two
\* threads, each with a fragment
C20_WitnessTwoThreads ==
  \E i, j \in 1..Len(output) :
    /\ output[i].by # output[j].by
    /\ output[i].ev = "end" /\ output[j].ev = "end"
    /\ Len(output[i - 1].text) > 1 /\ Len(output[j - 1].text) > 1

\* ---- C17 ----
InHandler(th) == interrupted[th] # NotInterrupted

\* the messages the statement of frame f has delivered so far
Emitted(f) == [i \in 1..Len(handled[f]) |-> handled[f][i].text] \o console[f]

Contains(text, part) ==
  \E i \in 1..(Len(text) - Len(part) + 1) : SubSeq(text, i, i + Len(part) - 1) = part

\* C17 as stated: whenever the interrupted thread holds one of the two locks,
\* the handler's warning statement does not complete.
C17_HeldLockBlocksHandler ==
  \A th \in Threads :
    InHandler(th) /\ HoldsALock(th) => pc[FrameOf(th)] # "stmt_done"

\* while the thread below holds the manager's mutex the handler has not got past
\* the lock of produceWarning(); while it holds debugMutex and the handler's sink
\* is the built-in one, the handler's statement has delivered nothing and is not
\* over; a handler's statement with the built-in sink that is over has delivered
\* exactly one message, which holds the signal number and ends the line, to the
\* message handler (classified Warning) or to the console
HandlerBlocksOrEmitsOnce ==
  \A th \in Threads :
    InHandler(th) =>
      LET f == FrameOf(th)
      IN /\ mgrMutex = th => pc[f] = "sig_entry"
         /\ debugMutex = th /\ stmt[f].sink = "Default" =>
              /\ pc[f] \in {"stmt", "sync_lock"}
              /\ Emitted(f) = <<>>
         /\ pc[f] = "stmt_done" /\ stmt[f].sink = "Default" =>
              /\ ~HoldsALock(th)
              /\ Len(Emitted(f)) = 1
              /\ Contains(Emitted(f)[1], DecimalText(SIGABRT))
              /\ Emitted(f)[1][Len(Emitted(f)[1])] = NewLine
              /\ \A i \in 1..Len(handled[f]) : handled[f][i].type = "Warning"

\* a behaviour delivers a bounded number of signals, and in the end the only
\* handlers that have not returned are those on a thread that holds a lock and
\* those that have such a thread beside them
FreeHandlersReturn ==
  <>[](\A th \in Threads :
         InHandler(th) /\ ~HoldsALock(th) =>
           \E o \in Threads \ {th} : InHandler(o) /\ HoldsALock(o))

\* C17, amended: if SIGABRT is delivered to a thread that holds the manager's
\* mutex, the handler's statement waits in produceWarning() and never completes;
\* if the thread holds debugMutex and the warning factory is the built-in one,
\* the statement waits at the flush of its sink, delivers nothing and never
\* completes (the sink of a factory installed with setWarning() does not lock
\* debugMutex, and the handler goes on); a handler whose statement with the
\* built-in sink completes has emitted exactly one warning message holding the
\* signal number; and under fair scheduling a handler on a thread that holds
\* neither lock returns, unless another thread is stopped in its own handler
\* while holding a lock.
C17_HandlerBlocksOrEmitsOnce == []HandlerBlocksOrEmitsOnce /\ FreeHandlersReturn

\* C17 witness (blocked): the handler waits at the flush of its built-in sink
\* for debugMutex, which the thread it interrupted holds
C17_WitnessBlocked ==
  \E th \in Threads :
    /\ InHandler(th) /\ debugMutex = th
    /\ pc[FrameOf(th)] = "sync_lock" /\ stmt[FrameOf(th)].sink = "Default"

\* C17 witness (blocked on the manager's mutex): the handler waits in
\* produceWarning() for the mutex the interrupted thread holds
C17_WitnessBlockedInProduce ==
  \E th \in Threads :
    InHandler(th) /\ mgrMutex = th /\ pc[FrameOf(th)] = "sig_entry"

\* C17 witness: a handler on a thread that holds no lock has finished its
\* statement with the built-in sink
C17_Witness ==
  \E th \in Threads :
    /\ InHandler(th) /\ ~HoldsALock(th)
    /\ pc[FrameOf(th)] = "stmt_done" /\ stmt[FrameOf(th)].sink = "Default"
    /\ Len(Emitted(FrameOf(th))) = 1

====
